---- MODULE Spec2Model ----
(***************************************************************************)
(* The Puzzle Network: the game generation pipeline                        *)
(* (GameGenerationPipeline.execute, src/src/the_puzzle_network/main.py)    *)
(* and the pure assembly / validation functions it relies on               *)
(* (agents/game_builder_agent.py, tools/validation_tools.py,               *)
(* tools/format_tools.py).                                                 *)
(*                                                                         *)
(* Spec          : runs of execute on one pipeline object, sequential or   *)
(*                 interleaved at the await points of the coroutine.       *)
(* SpecAssemble  : GameBuilderAgent.assemble_game applied to bounded       *)
(*                 inputs.                                                 *)
(* SpecTools     : the functions of tools/word_tools.py,                   *)
(*                 tools/validation_tools.py and                           *)
(*                 agents/word_picker_agent.py, each applied on its own    *)
(*                 to bounded inputs.                                      *)
(***************************************************************************)
EXTENDS Integers, Sequences, FiniteSets, TLC

VARIABLES
    now,            \* int(time.time()): the wall clock, in whole seconds
    attrs,          \* the pipeline's collaborators: which attributes are set
    metrics,        \* self.metrics, the one PipelineMetrics of the pipeline
    sessions,       \* self.session_service: session id -> state keys written
    calls,          \* the number of calls of execute made so far
    pc,             \* per frame: "running" while a call of execute holds it
    request,        \* per call: which call it is (the request argument)
    start_time,     \* per call: start_time local
    session_id,     \* per call: session_id local (NoSession before line 187)
    event_count,    \* per call: event_count local
    final_response, \* per call: final_response local
    active,         \* per call: the stages the runner is running
    done,           \* per call: the stages that have run to their end
    partials,       \* per call: non-final events consumed so far
    wrote,          \* per call: the output keys its stages wrote, in order
    left,           \* the call that left execute last, as seen at its boundary
    result,         \* the dict that call returned (NoResult if it raised)
    asm_in,         \* assemble_game: the arguments
    asm_out,        \* assemble_game: the CompleteGame returned
    fn_in,          \* a tool function called on its own: which, and its arguments
    fn_out          \* what that call returned

pipeVars == <<now, attrs, metrics, sessions, calls, pc, request, start_time,
              session_id, event_count, final_response, active, done, partials, wrote,
              left, result>>
asmVars == <<asm_in, asm_out>>
toolVars == <<fn_in, fn_out>>
vars == <<pipeVars, asmVars, toolVars>>

----------------------------------------------------------------------------
(* Bounds of the model *)

MaxRuns == 2
MaxTime == 1
MaxStageEvents == 1
MaxAbsent == 1
MaxInFlight == 1

\* The calls of execute in flight at one time each have a coroutine frame.
Runs == 1..MaxInFlight

----------------------------------------------------------------------------
(* Strings are sequences of one-character strings, so that length, case    *)
(* conversion and substring tests are computed as Python computes them.    *)

LowerLetters ==
    <<"a","b","c","d","e","f","g","h","i","j","k","l","m",
      "n","o","p","q","r","s","t","u","v","w","x","y","z">>
UpperLetters ==
    <<"A","B","C","D","E","F","G","H","I","J","K","L","M",
      "N","O","P","Q","R","S","T","U","V","W","X","Y","Z">>
Digits == <<"0","1","2","3","4","5","6","7","8","9">>

----------------------------------------------------------------------------
(* GameGenerationPipeline: state of the pipeline object and of its calls *)

Stages == 1..3
StageKey == <<"brainstorm_result", "picked_words", "final_game">>
NoSession == -1
NoFault == ""
NoResponse == [stage |-> 0, has_content |-> FALSE]
NoResult == [returned |-> FALSE]
AttrNames == {"google_api_key", "brainstorm_agent", "word_picker_agent",
              "game_builder_agent"}
StageErrors == {"model unavailable"}
CancelledError == "CancelledError"
SessionExistsError == "Session already exists"
SelfMetrics == "self.metrics"

\* PipelineMetrics(): the dataclass defaults.
PipelineMetrics == [total_events |-> 0, execution_time_seconds |-> 0,
                    error_count |-> 0]

\* What is seen of a call at the boundary of execute when it leaves: which
\* call it is, whether the pipeline validated when it was made, what was
\* raised inside execute (NoFault if nothing) and whether that left execute
\* as an exception.
Boundary(r, valid, raised, propagated) ==
    [run |-> r, valid |-> valid, raised |-> raised, propagated |-> propagated]
NoCall == Boundary(0, TRUE, NoFault, FALSE)

\* GameGenerationPipeline.__init__: every collaborator is set (the constructor
\* raises without an API key and builds the default agents), the session
\* service is empty and the metrics are fresh.
InitPipeline ==
    /\ now = 0
    /\ attrs = [google_api_key |-> TRUE, brainstorm_agent |-> TRUE,
                word_picker_agent |-> TRUE, game_builder_agent |-> TRUE,
                session_service |-> TRUE]
    /\ metrics = PipelineMetrics
    /\ sessions = [i \in {} |-> {}]
    /\ calls = 0
    /\ pc = [r \in Runs |-> "idle"]
    /\ request = [r \in Runs |-> 0]
    /\ start_time = [r \in Runs |-> 0]
    /\ session_id = [r \in Runs |-> NoSession]
    /\ event_count = [r \in Runs |-> 0]
    /\ final_response = [r \in Runs |-> NoResponse]
    /\ active = [r \in Runs |-> {}]
    /\ done = [r \in Runs |-> {}]
    /\ partials = [r \in Runs |-> 0]
    /\ wrote = [r \in Runs |-> <<>>]
    /\ left = NoCall
    /\ result = NoResult

\* "; ".join(issues)
RECURSIVE JoinIssues(_)
JoinIssues(issues) ==
    IF Len(issues) = 0 THEN ""
    ELSE IF Len(issues) = 1 THEN issues[1]
    ELSE issues[1] \o "; " \o JoinIssues(Tail(issues))

\* A validation that does not look at the stage agents.
PipelineIssuesWithoutAgents(a) ==
    (IF ~a.google_api_key
        THEN <<"Google API key not configured">> ELSE <<>>)
    \o (IF ~a.session_service
        THEN <<"Session service not initialized">> ELSE <<>>)

\* validate_pipeline: the issues list.
PipelineIssues(a) ==
    (IF ~a.google_api_key
        THEN <<"Google API key not configured">> ELSE <<>>)
    \o (IF ~(a.brainstorm_agent /\ a.word_picker_agent /\ a.game_builder_agent)
        THEN <<"Not all required agents are initialized">> ELSE <<>>)
    \o (IF ~a.session_service
        THEN <<"Session service not initialized">> ELSE <<>>)

validate_pipeline(a) ==
    [valid |-> Len(PipelineIssues(a)) = 0,
     issues |-> PipelineIssues(a),
     error |-> JoinIssues(PipelineIssues(a))]

\* session_id = f"{session_prefix}_{int(time.time())}": the prefix is fixed,
\* so the identifier is determined by the clock's whole second.
NewSessionId(t) == t

\* An except branch that does not count the error.
MetricsAfterErrorUncounted(m, t0) ==
    [m EXCEPT !.execution_time_seconds = now - t0]

\* The except branch of execute (lines 266-282): the metrics after it ...
MetricsAfterError(m, t0) ==
    [m EXCEPT !.error_count = m.error_count + 1,
              !.execution_time_seconds = now - t0]

\* ... and the dict it returns.  "metrics" is self.metrics itself, the one
\* object of the pipeline, not a copy: what a caller reads through it is the
\* variable metrics.
FailureResult(r, msg, t0) ==
    [success |-> FALSE,
     error |-> msg,
     request |-> r,
     execution_time |-> now - t0,
     metrics |-> SelfMetrics]

\* A success path that reports a final game whatever the last response held.
SuccessResultAlwaysGame(r, count, response, t0) ==
    [success |-> TRUE,
     request |-> r,
     execution_time |-> now - t0,
     event_count |-> count,
     final_response |-> response,
     metrics |-> SelfMetrics,
     final_game |-> [text_of |-> response.stage]]

\* The result dict of the success path (lines 235-264), from the locals as
\* they are when the loop ends.
SuccessResult(r, count, response, t0) ==
    LET base == [success |-> TRUE,
                 request |-> r,
                 execution_time |-> now - t0,
                 event_count |-> count,
                 final_response |-> response,
                 metrics |-> SelfMetrics]
    IN IF response.stage # 0 /\ response.has_content
       THEN base @@ [final_game |-> [text_of |-> response.stage]]
       ELSE base

\* A runner that enters every stage that is neither running nor ended.
CanStartUnordered(act, dn, s) ==
    /\ s \notin act
    /\ s \notin dn

\* create_sequential_pipeline (lines 147-157): a SequentialAgent over the
\* three stage agents in the order brainstorm, word picker, game builder.  It
\* enters a sub-agent only when none is running and every earlier one has run
\* to its end.
CanStart(act, dn, s) ==
    /\ act = {}
    /\ s \notin dn
    /\ \A t \in Stages : t < s => t \in dn

\* The stages the runner enters when `act` are running and `dn` have ended.
StagesToStart(act, dn) == {s \in Stages : CanStart(act, dn, s)}

\* The state of a session that no running call holds any more.  The session
\* service keeps it, but nothing reads it again: create_session either
\* refuses its identifier or replaces the state.  Its content is therefore
\* not tracked.
Unread == {"unread"}

\* The session states once call r has left execute.
SessionsAfterLeave(ss, r) ==
    IF session_id[r] \in DOMAIN ss
       /\ \A q \in Runs \ {r} : ~(pc[q] = "running" /\ session_id[q] = session_id[r])
    THEN [ss EXCEPT ![session_id[r]] = Unread]
    ELSE ss

\* The coroutine's frame is gone once execute has left: its locals are no
\* longer part of the state.
LocalsDropped(r) ==
    /\ request' = [request EXCEPT ![r] = 0]
    /\ start_time' = [start_time EXCEPT ![r] = 0]
    /\ session_id' = [session_id EXCEPT ![r] = NoSession]
    /\ event_count' = [event_count EXCEPT ![r] = 0]
    /\ final_response' = [final_response EXCEPT ![r] = NoResponse]
    /\ active' = [active EXCEPT ![r] = {}]
    /\ done' = [done EXCEPT ![r] = {}]
    /\ partials' = [partials EXCEPT ![r] = 0]
    /\ wrote' = [wrote EXCEPT ![r] = <<>>]

\* Which exceptions "except Exception" (line 266) catches: CancelledError
\* derives from BaseException, not from Exception.
CaughtByExcept(exc) == exc # CancelledError

\* Exception exc is raised inside the try block of execute (lines 173-264)
\* by call n, made at a time when validate_pipeline said `valid`: the except
\* branch turns it into a result, or it leaves execute.
Raise(r, n, exc, valid, t0) ==
    /\ IF CaughtByExcept(exc)
       THEN /\ metrics' = MetricsAfterError(metrics, t0)
            /\ result' = FailureResult(n, exc, t0)
       ELSE /\ metrics' = metrics
            /\ result' = NoResult
    /\ left' = Boundary(n, valid, exc, ~CaughtByExcept(exc))
    /\ pc' = [pc EXCEPT ![r] = "idle"]
    /\ LocalsDropped(r)

\* execute is entered: lines 171-184 up to the validation.  Calls are
\* numbered in the order in which they are made, and a call takes the first
\* free frame.
Entered(r) ==
    /\ pc[r] = "idle"
    /\ \A q \in Runs : q < r => pc[q] # "idle"
    /\ calls < MaxRuns
    /\ calls' = calls + 1

\* Lines 180-184: validation fails, ValueError, caught at line 266.
ExecuteInvalid(r) ==
    /\ Entered(r)
    /\ ~validate_pipeline(attrs).valid
    /\ Raise(r, calls + 1,
             "Pipeline validation failed: " \o validate_pipeline(attrs).error,
             FALSE, now)
    /\ UNCHANGED <<now, attrs, sessions, asmVars, toolVars>>

\* The locals of a call that has reached the event loop: the runner has
\* entered the first stage and waits for the model.
Running(r) ==
    /\ pc' = [pc EXCEPT ![r] = "running"]
    /\ request' = [request EXCEPT ![r] = calls + 1]
    /\ start_time' = [start_time EXCEPT ![r] = now]
    /\ session_id' = [session_id EXCEPT ![r] = NewSessionId(now)]
    /\ active' = [active EXCEPT ![r] = StagesToStart({}, {})]
    /\ UNCHANGED <<event_count, final_response, done, partials, wrote>>

\* Lines 186-200: the session is created under a fresh identifier and the
\* runner is built; the coroutine reaches the event loop.
ExecuteCreateSession(r) ==
    /\ Entered(r)
    /\ validate_pipeline(attrs).valid
    /\ NewSessionId(now) \notin DOMAIN sessions
    /\ sessions' = [i \in DOMAIN sessions \cup {NewSessionId(now)} |->
                      IF i = NewSessionId(now) THEN {} ELSE sessions[i]]
    /\ Running(r)
    /\ UNCHANGED <<now, attrs, metrics, left, result, asmVars, toolVars>>

\* create_session (line 188) with an identifier the session service already
\* holds: the service either refuses it (an AlreadyExistsError, caught at
\* line 266) ...
ExecuteSessionExists(r) ==
    /\ Entered(r)
    /\ validate_pipeline(attrs).valid
    /\ NewSessionId(now) \in DOMAIN sessions
    /\ Raise(r, calls + 1, SessionExistsError, TRUE, now)
    /\ UNCHANGED <<now, attrs, sessions, asmVars, toolVars>>

\* ... or replaces the stored session by an empty one, which the call then
\* shares with whoever else holds that identifier.
ExecuteSessionReplaced(r) ==
    /\ Entered(r)
    /\ validate_pipeline(attrs).valid
    /\ NewSessionId(now) \in DOMAIN sessions
    /\ sessions' = [sessions EXCEPT ![NewSessionId(now)] = {}]
    /\ Running(r)
    /\ UNCHANGED <<now, attrs, metrics, left, result, asmVars, toolVars>>

EventKinds == {"partial", "final_text", "final_empty"}
IsFinal(kind) == kind # "partial"
HasContent(kind) == kind = "final_text"

\* output_key of a stage's LlmAgent (output_key="brainstorm_result",
\* "picked_words", "final_game"): the text of a final response that has
\* content is stored in the session state under the stage's key before the
\* event reaches execute.
StateAfterEvent(state, s, kind) ==
    IF IsFinal(kind) /\ HasContent(kind) THEN state \cup {StageKey[s]} ELSE state

\* The keys the stages of one call have written, in the order of writing.
KeysAfterEvent(keys, s, kind) ==
    IF IsFinal(kind) /\ HasContent(kind) THEN Append(keys, StageKey[s]) ELSE keys

\* The body of the event loop (lines 219-224) on the final_response local.
ResponseAfterEvent(old, s, kind) ==
    IF IsFinal(kind) THEN [stage |-> s, has_content |-> HasContent(kind)] ELSE old

\* One iteration of "async for event in runner.run_async(...)" (lines
\* 214-230): stage s yields an event and execute consumes it and asks for the
\* next one.  A stage ends with its final response; the runner then enters
\* the next stage, where it waits for the model, or, when no stage is left,
\* ends the stream, and execute returns its result (lines 232-264).
ConsumeEvent(r, s, kind) ==
    /\ pc[r] = "running"
    /\ s \in active[r]
    /\ kind = "partial" => partials[r] < MaxStageEvents
    /\ LET count == event_count[r] + 1
           written == [sessions EXCEPT
                         ![session_id[r]] = StateAfterEvent(sessions[session_id[r]], s, kind)]
           keys == KeysAfterEvent(wrote[r], s, kind)
           response == ResponseAfterEvent(final_response[r], s, kind)
           ended == IF IsFinal(kind) THEN done[r] \cup {s} ELSE done[r]
           rest == IF IsFinal(kind) THEN active[r] \ {s} ELSE active[r]
           entered == IF IsFinal(kind) THEN StagesToStart(rest, ended) ELSE {}
       IN IF rest \cup entered = {} /\ ended = Stages
          THEN /\ metrics' = [metrics EXCEPT
                                !.total_events = count,
                                !.execution_time_seconds = now - start_time[r]]
               /\ result' = SuccessResult(request[r], count, response, start_time[r])
               /\ left' = Boundary(request[r], TRUE, NoFault, FALSE)
               /\ pc' = [pc EXCEPT ![r] = "idle"]
               /\ sessions' = SessionsAfterLeave(written, r)
               /\ LocalsDropped(r)
          ELSE /\ metrics' = [metrics EXCEPT !.total_events = count]
               /\ sessions' = written
               /\ event_count' = [event_count EXCEPT ![r] = count]
               /\ final_response' = [final_response EXCEPT ![r] = response]
               /\ wrote' = [wrote EXCEPT ![r] = keys]
               /\ done' = [done EXCEPT ![r] = ended]
               /\ active' = [active EXCEPT ![r] = rest \cup entered]
               /\ partials' = [partials EXCEPT ![r] =
                                 IF IsFinal(kind) THEN partials[r]
                                                  ELSE partials[r] + 1]
               /\ UNCHANGED <<pc, request, start_time, session_id, left, result>>
    /\ UNCHANGED <<now, attrs, calls, asmVars, toolVars>>

\* The collaborator of stage s raises; the exception leaves the async for.
StageRaises(r, s, msg) ==
    /\ pc[r] = "running"
    /\ s \in active[r]
    /\ Raise(r, request[r], msg, TRUE, start_time[r])
    /\ sessions' = SessionsAfterLeave(sessions, r)
    /\ UNCHANGED <<now, attrs, calls, asmVars, toolVars>>

\* The task running execute is cancelled while it waits in the event loop:
\* CancelledError is raised at the await.
Cancel(r) ==
    /\ pc[r] = "running"
    /\ Raise(r, request[r], CancelledError, TRUE, start_time[r])
    /\ sessions' = SessionsAfterLeave(sessions, r)
    /\ UNCHANGED <<now, attrs, calls, asmVars, toolVars>>

\* time.time() advances.
Tick ==
    /\ now < MaxTime
    /\ now' = now + 1
    /\ UNCHANGED <<attrs, metrics, sessions, calls, pc, request, start_time, session_id,
                   event_count, final_response, active, done, partials, wrote,
                   left, result, asmVars, toolVars>>

\* The pipeline's collaborators are public attributes: the owner clears one
\* (None) or sets it again between calls of execute.
SetAttr(name, present) ==
    /\ calls < MaxRuns
    /\ \A r \in Runs : pc[r] = "idle"
    /\ attrs[name] # present
    /\ ~present => Cardinality({n \in AttrNames : ~attrs[n]}) < MaxAbsent
    /\ attrs' = [attrs EXCEPT ![name] = present]
    /\ UNCHANGED <<now, metrics, sessions, calls, pc, request, start_time, session_id,
                   event_count, final_response, active, done, partials, wrote,
                   left, result, asmVars, toolVars>>

NextPipeline ==
    \/ Tick
    \/ \E name \in AttrNames, present \in BOOLEAN : SetAttr(name, present)
    \/ \E r \in Runs : ExecuteInvalid(r)
    \/ \E r \in Runs : ExecuteCreateSession(r)
    \/ \E r \in Runs : ExecuteSessionExists(r)
    \/ \E r \in Runs : ExecuteSessionReplaced(r)
    \/ \E r \in Runs, s \in Stages, kind \in EventKinds : ConsumeEvent(r, s, kind)
    \/ \E r \in Runs, s \in Stages, msg \in StageErrors : StageRaises(r, s, msg)
    \/ \E r \in Runs : Cancel(r)

InitAssembleIdle ==
    /\ asm_in = [theme |-> <<>>, game_type |-> "word_search", words |-> <<>>,
                 difficulty |-> "easy"]
    /\ asm_out = [assembled |-> FALSE]

\* No tool function is called on its own.
NoCallOfTool == [op |-> "none"]
NotReturned == [returned |-> FALSE]

InitToolsIdle ==
    /\ fn_in = NoCallOfTool
    /\ fn_out = NotReturned

Init == InitPipeline /\ InitAssembleIdle /\ InitToolsIdle
Next == NextPipeline
Spec == Init /\ [][Next]_vars

----------------------------------------------------------------------------
(* Text.  A Python str is a sequence of one-character strings. *)

IsLower(c) == \E i \in 1..Len(LowerLetters) : LowerLetters[i] = c
IsUpper(c) == \E i \in 1..Len(UpperLetters) : UpperLetters[i] = c
IsLetter(c) == IsLower(c) \/ IsUpper(c)

\* The position of character c in the sequence seq that contains it.
IndexIn(c, seq) == CHOOSE i \in 1..Len(seq) : seq[i] = c

LowerChar(c) == IF IsUpper(c) THEN LowerLetters[IndexIn(c, UpperLetters)] ELSE c
UpperChar(c) == IF IsLower(c) THEN UpperLetters[IndexIn(c, LowerLetters)] ELSE c

\* str.lower(), str.upper()
str_lower(s) == [i \in 1..Len(s) |-> LowerChar(s[i])]
str_upper(s) == [i \in 1..Len(s) |-> UpperChar(s[i])]

\* str.title(): a letter that follows a letter is lowercased, any other
\* letter is uppercased, and the other characters are kept.
str_title(s) ==
    [i \in 1..Len(s) |->
        IF i > 1 /\ IsLetter(s[i - 1]) THEN LowerChar(s[i]) ELSE UpperChar(s[i])]

\* sub in s
Contains(sub, s) ==
    \E i \in 0..(Len(s) - Len(sub)) : SubSeq(s, i + 1, i + Len(sub)) = sub

\* str(n) for a natural number n
RECURSIVE Decimal(_)
Decimal(n) ==
    IF n < 10 THEN <<Digits[n + 1]>>
    ELSE Decimal(n \div 10) \o <<Digits[(n % 10) + 1]>>

\* sep.join(parts)
RECURSIVE Join(_, _)
Join(sep, parts) ==
    IF Len(parts) = 0 THEN <<>>
    ELSE IF Len(parts) = 1 THEN parts[1]
    ELSE parts[1] \o sep \o Join(sep, Tail(parts))

\* c * n
Repeat(c, n) == [i \in 1..n |-> c]

----------------------------------------------------------------------------
(* tools/validation_tools.py: GameType and GameValidator *)

\* GameType: the members, by their values.
GameType == {"word_search", "crossword", "anagram", "word_match", "trivia"}

\* The value of a member, as text.
GameTypeValue(gt) ==
    CASE gt = "word_search" -> <<"w","o","r","d","_","s","e","a","r","c","h">>
      [] gt = "crossword" -> <<"c","r","o","s","s","w","o","r","d">>
      [] gt = "anagram" -> <<"a","n","a","g","r","a","m">>
      [] gt = "word_match" -> <<"w","o","r","d","_","m","a","t","c","h">>
      [] gt = "trivia" -> <<"t","r","i","v","i","a">>

\* None, where a result leaves a field at its default.
None == "<None>"

\* GameValidator.__init__: the defaults.
required_fields == <<"type", "title", "words", "difficulty">>
quality_thresholds ==
    [title_length |-> <<3, 50>>,
     word_count |-> <<3, 50>>,
     instructions_length |-> <<10, 500>>]

\* The required fields that game_data lacks, in the order of required_fields.
RECURSIVE MissingFields(_, _)
MissingFields(fields, game_data) ==
    IF Len(fields) = 0 THEN <<>>
    ELSE (IF fields[1] \in DOMAIN game_data THEN <<>> ELSE <<fields[1]>>)
         \o MissingFields(Tail(fields), game_data)

\* ", ".join(names)
RECURSIVE JoinNames(_)
JoinNames(names) ==
    IF Len(names) = 0 THEN ""
    ELSE IF Len(names) = 1 THEN names[1]
    ELSE names[1] \o ", " \o JoinNames(Tail(names))

\* [gt.value for gt in self.valid_game_types]
valid_type_values ==
    <<"word_search", "crossword", "anagram", "word_match", "trivia">>

\* A completion check that looks at the game type before the word count.
validate_game_completion_type_first(game_data) ==
    IF Len(MissingFields(required_fields, game_data)) > 0
    THEN [valid |-> FALSE, message |-> None,
          error |-> "Missing required fields: "
                    \o JoinNames(MissingFields(required_fields, game_data)),
          missing_fields |-> MissingFields(required_fields, game_data)]
    ELSE IF \A i \in 1..Len(valid_type_values) : valid_type_values[i] # game_data.type
    THEN [valid |-> FALSE, message |-> None,
          error |-> "Invalid game type. Must be one of: "
                    \o JoinNames(valid_type_values),
          missing_fields |-> None]
    ELSE IF Len(game_data.words) < quality_thresholds.word_count[1]
    THEN [valid |-> FALSE, message |-> None,
          error |-> "Game must contain at least "
                    \o ToString(quality_thresholds.word_count[1]) \o " words",
          missing_fields |-> None]
    ELSE [valid |-> TRUE, message |-> "Game structure is valid",
          error |-> None, missing_fields |-> None]

\* GameValidator.validate_game_completion
validate_game_completion(game_data) ==
    IF Len(MissingFields(required_fields, game_data)) > 0
    THEN [valid |-> FALSE, message |-> None,
          error |-> "Missing required fields: "
                    \o JoinNames(MissingFields(required_fields, game_data)),
          missing_fields |-> MissingFields(required_fields, game_data)]
    ELSE IF Len(game_data.words) < quality_thresholds.word_count[1]
    THEN [valid |-> FALSE, message |-> None,
          error |-> "Game must contain at least "
                    \o ToString(quality_thresholds.word_count[1]) \o " words",
          missing_fields |-> None]
    ELSE IF \A i \in 1..Len(valid_type_values) : valid_type_values[i] # game_data.type
    THEN [valid |-> FALSE, message |-> None,
          error |-> "Invalid game type. Must be one of: "
                    \o JoinNames(valid_type_values),
          missing_fields |-> None]
    ELSE [valid |-> TRUE, message |-> "Game structure is valid",
          error |-> None, missing_fields |-> None]

\* An evaluation that stops at the first violated bound.
QualityIssuesShortCircuit(title, words, instructions) ==
    IF Len(title) < quality_thresholds.title_length[1]
    THEN <<"Title must be at least "
           \o ToString(quality_thresholds.title_length[1]) \o " characters">>
    ELSE IF Len(title) > quality_thresholds.title_length[2]
    THEN <<"Title must be "
           \o ToString(quality_thresholds.title_length[2])
           \o " characters or less">>
    ELSE IF Len(words) < quality_thresholds.word_count[1]
    THEN <<"Game must contain at least "
           \o ToString(quality_thresholds.word_count[1]) \o " words">>
    ELSE IF Len(words) > quality_thresholds.word_count[2]
    THEN <<"Game should not exceed "
           \o ToString(quality_thresholds.word_count[2]) \o " words">>
    ELSE IF Len(instructions) < quality_thresholds.instructions_length[1]
    THEN <<"Instructions must be at least "
           \o ToString(quality_thresholds.instructions_length[1])
           \o " characters">>
    ELSE IF Len(instructions) > quality_thresholds.instructions_length[2]
    THEN <<"Instructions should not exceed "
           \o ToString(quality_thresholds.instructions_length[2])
           \o " characters">>
    ELSE <<>>

\* GameValidator.check_content_quality: the issues, in the order found.
QualityIssues(title, words, instructions) ==
    (IF Len(title) < quality_thresholds.title_length[1]
        THEN <<"Title must be at least "
               \o ToString(quality_thresholds.title_length[1]) \o " characters">>
        ELSE <<>>)
    \o (IF Len(title) > quality_thresholds.title_length[2]
        THEN <<"Title must be "
               \o ToString(quality_thresholds.title_length[2])
               \o " characters or less">>
        ELSE <<>>)
    \o (IF Len(words) < quality_thresholds.word_count[1]
        THEN <<"Game must contain at least "
               \o ToString(quality_thresholds.word_count[1]) \o " words">>
        ELSE <<>>)
    \o (IF Len(words) > quality_thresholds.word_count[2]
        THEN <<"Game should not exceed "
               \o ToString(quality_thresholds.word_count[2]) \o " words">>
        ELSE <<>>)
    \o (IF Len(instructions) < quality_thresholds.instructions_length[1]
        THEN <<"Instructions must be at least "
               \o ToString(quality_thresholds.instructions_length[1])
               \o " characters">>
        ELSE <<>>)
    \o (IF Len(instructions) > quality_thresholds.instructions_length[2]
        THEN <<"Instructions should not exceed "
               \o ToString(quality_thresholds.instructions_length[2])
               \o " characters">>
        ELSE <<>>)

\* max(a, b)
Max(a, b) == IF a >= b THEN a ELSE b

\* GameValidator.check_content_quality
check_content_quality(title, words, instructions) ==
    LET quality_issues == QualityIssues(title, words, instructions)
    IN [valid |-> Len(quality_issues) = 0,
        quality_score |-> IF Len(quality_issues) > 0
                          THEN Max(0, 100 - Len(quality_issues) * 20)
                          ELSE 100,
        issues |-> quality_issues,
        total_issues |-> Len(quality_issues)]

\* A theme check that compares the theme and the description as written.
validate_theme_consistency_case_sensitive(theme, words, description) ==
    IF Len(theme) = 0
    THEN [valid |-> FALSE, theme |-> <<>>,
          theme_mentioned_in_description |-> FALSE,
          word_count |-> 0, consistency_score |-> 0,
          error |-> "Theme cannot be empty"]
    ELSE IF Len(words) = 0
    THEN [valid |-> FALSE, theme |-> theme,
          theme_mentioned_in_description |-> FALSE,
          word_count |-> 0, consistency_score |-> 0,
          error |-> "Word list cannot be empty"]
    ELSE LET theme_presence == Contains(theme, description)
         IN [valid |-> TRUE, theme |-> theme,
             theme_mentioned_in_description |-> theme_presence,
             word_count |-> Len(words),
             consistency_score |-> IF theme_presence THEN 85 ELSE 70,
             error |-> None]

\* GameValidator.validate_theme_consistency
validate_theme_consistency(theme, words, description) ==
    IF Len(theme) = 0
    THEN [valid |-> FALSE, theme |-> <<>>,
          theme_mentioned_in_description |-> FALSE,
          word_count |-> 0, consistency_score |-> 0,
          error |-> "Theme cannot be empty"]
    ELSE IF Len(words) = 0
    THEN [valid |-> FALSE, theme |-> theme,
          theme_mentioned_in_description |-> FALSE,
          word_count |-> 0, consistency_score |-> 0,
          error |-> "Word list cannot be empty"]
    ELSE LET theme_presence == Contains(str_lower(theme), str_lower(description))
         IN [valid |-> TRUE, theme |-> theme,
             theme_mentioned_in_description |-> theme_presence,
             word_count |-> Len(words),
             consistency_score |-> IF theme_presence THEN 85 ELSE 70,
             error |-> None]

\* ContentValidator.check_content_quality: the issues strict mode adds.
StrictIssues(title, words) ==
    LET unique_words == {str_lower(words[i]) : i \in 1..Len(words)}
    IN (IF Len(title) < 5
        THEN <<"Title should be at least 5 characters in strict mode">>
        ELSE <<>>)
       \o (IF Cardinality(unique_words) # Len(words)
           THEN <<"All words must be unique in strict mode">>
           ELSE <<>>)

\* A strict mode that applies its rules whatever the base score.
content_validator_always_strict(strict_mode, title, words, instructions) ==
    LET base == check_content_quality(title, words, instructions)
        additional_issues == StrictIssues(title, words)
        quality_score ==
            Max(0, base.quality_score - Len(additional_issues) * 10)
    IN IF strict_mode /\ Len(additional_issues) > 0
       THEN [valid |-> quality_score >= 80,
             quality_score |-> quality_score,
             issues |-> base.issues \o additional_issues,
             total_issues |-> base.total_issues + Len(additional_issues)]
       ELSE base

\* ContentValidator.check_content_quality of a validator constructed with
\* strict_mode.
content_validator_check_content_quality(strict_mode, title, words, instructions) ==
    LET base == check_content_quality(title, words, instructions)
        additional_issues == StrictIssues(title, words)
        quality_score ==
            Max(0, base.quality_score - Len(additional_issues) * 10)
    IN IF strict_mode /\ base.quality_score < 90
          /\ Len(additional_issues) > 0
       THEN [valid |-> quality_score >= 80,
             quality_score |-> quality_score,
             issues |-> base.issues \o additional_issues,
             total_issues |-> base.total_issues + Len(additional_issues)]
       ELSE base

----------------------------------------------------------------------------
(* tools/format_tools.py *)

\* GameFormatter._calculate_estimated_time
calculate_estimated_time(words) == 5 + (Len(words) \div 5)

\* GameFormatter.format_game_structure: the structure that json.dumps
\* serialises.
format_game_structure(game_type, title, words, difficulty) ==
    [metadata |-> [type |-> game_type,
                   title |-> title,
                   difficulty |-> difficulty,
                   word_count |-> Len(words)],
     content |-> [words |-> words,
                  instructions |->
                      <<"S","o","l","v","e"," ","t","h","e"," ">>
                      \o game_type
                      \o <<" ","p","u","z","z","l","e"," ","u","s","i","n","g"," ","t",
            "h","e","s","e"," ">>
                      \o Decimal(Len(words))
                      \o <<" ","w","o","r","d","s">>,
                  estimated_time_minutes |-> calculate_estimated_time(words)]]

\* ClueFormatter._hint_templates: what a category is called in a hint.
HintNoun(category) ==
    CASE category = "animal" -> <<"a","n","i","m","a","l">>
      [] category = "place" -> <<"l","o","c","a","t","i","o","n">>
      [] category = "object" -> <<"o","b","j","e","c","t">>
      [] category = "action" -> <<"v","e","r","b">>
      [] OTHER -> <<"w","o","r","d">>

\* ClueFormatter.format_clue
format_clue(word, category) ==
    [word |-> word,
     hint |-> <<"T","h","i","s"," ","i","s"," ","a"," ">>
              \o Decimal(Len(word))
              \o <<"-","l","e","t","t","e","r"," ">>
              \o HintNoun(category),
     category |-> category,
     letter_count |-> Len(word)]

\* An answer key that numbers its lines from 0.
format_answer_key_from_zero(words_with_answers) ==
    Join(<<"\n">>,
         <<<<"A","N","S","W","E","R"," ","K","E","Y">>, Repeat("=", 40)>>
         \o [i \in 1..Len(words_with_answers) |->
                Decimal(i - 1) \o <<".", " ">>
                \o str_upper(words_with_answers[i].word)
                \o <<" ", "-", " ">>
                \o words_with_answers[i].hint])

\* AnswerKeyFormatter.format_answer_key
format_answer_key(words_with_answers) ==
    Join(<<"\n">>,
         <<<<"A","N","S","W","E","R"," ","K","E","Y">>, Repeat("=", 40)>>
         \o [i \in 1..Len(words_with_answers) |->
                Decimal(i) \o <<".", " ">>
                \o str_upper(words_with_answers[i].word)
                \o <<" ", "-", " ">>
                \o words_with_answers[i].hint])

----------------------------------------------------------------------------
(* agents/game_builder_agent.py: GameBuilderAgent *)

\* GameBuilderAgent.__init__: the default quality_standards.
quality_standards ==
    [content_quality |-> 80, theme_consistency |-> 75, overall_quality |-> 85]

\* _generate_title: game_type_names
GameTypeName(game_type) ==
    CASE game_type = "word_search" -> <<"W","o","r","d"," ","H","u","n","t">>
      [] game_type = "crossword" -> <<"C","r","o","s","s","w","o","r","d">>
      [] game_type = "anagram" -> <<"A","n","a","g","r","a","m"," ","C","h","a","l","l","e","n",
            "g","e">>
      [] game_type = "word_match" -> <<"W","o","r","d"," ","M","a","t","c","h">>
      [] game_type = "trivia" -> <<"T","r","i","v","i","a"," ","Q","u","e","s","t">>

\* _generate_title with the default template "{theme} {game_type}"
generate_title(theme, game_type) ==
    str_title(theme) \o <<" ">> \o GameTypeName(game_type)

\* _generate_instructions
generate_instructions(game_type, word_count) ==
    CASE game_type = "word_search" ->
           <<"F","i","n","d"," ","a","l","l"," ">> \o Decimal(word_count)
           \o <<" ","h","i","d","d","e","n"," ","w","o","r","d","s"," ","i",
            "n"," ","t","h","e"," ","g","r","i","d","."," ","W","o","r",
            "d","s"," ","c","a","n"," ","b","e"," ","h","o","r","i","z",
            "o","n","t","a","l",","," ","v","e","r","t","i","c","a","l",
            ","," ","o","r"," ","d","i","a","g","o","n","a","l",".">>
      [] game_type = "crossword" ->
           <<"F","i","l","l"," ","i","n"," ","t","h","e"," ","c","r","o",
            "s","s","w","o","r","d"," ","p","u","z","z","l","e"," ","u",
            "s","i","n","g"," ","t","h","e"," ">> \o Decimal(word_count)
           \o <<" ","c","l","u","e","s"," ","p","r","o","v","i","d","e","d",
            ".">>
      [] game_type = "anagram" ->
           <<"U","n","s","c","r","a","m","b","l","e"," ","e","a","c","h",
            " ","s","e","t"," ","o","f"," ","l","e","t","t","e","r","s",
            " ","t","o"," ","f","o","r","m"," ">> \o Decimal(word_count)
           \o <<" ","v","a","l","i","d"," ","w","o","r","d","s",".">>
      [] game_type = "word_match" ->
           <<"M","a","t","c","h"," ","e","a","c","h"," ","c","l","u","e",
            " ","w","i","t","h"," ","t","h","e"," ","c","o","r","r","e",
            "c","t"," ","w","o","r","d"," ","f","r","o","m"," ","t","h",
            "e"," ","l","i","s","t"," ","o","f"," ">>
           \o Decimal(word_count) \o <<" ","o","p","t","i","o","n","s",".">>
      [] game_type = "trivia" ->
           <<"A","n","s","w","e","r"," ","a","l","l"," ">> \o Decimal(word_count)
           \o <<" ","t","r","i","v","i","a"," ","q","u","e","s","t","i","o",
            "n","s"," ","c","o","r","r","e","c","t","l","y",".">>

\* _determine_word_category
determine_word_category(word, theme) ==
    LET theme_lower == str_lower(theme)
    IN IF \/ Contains(<<"a","n","i","m","a","l">>, theme_lower)
          \/ Contains(<<"c","r","e","a","t","u","r","e">>, theme_lower)
       THEN "animal"
       ELSE IF \/ Contains(<<"p","l","a","c","e">>, theme_lower)
               \/ Contains(<<"l","o","c","a","t","i","o","n">>, theme_lower)
               \/ Contains(<<"c","i","t","y">>, theme_lower)
       THEN "place"
       ELSE IF \/ Contains(<<"a","c","t","i","o","n">>, theme_lower)
               \/ Contains(<<"v","e","r","b">>, theme_lower)
               \/ Contains(<<"a","c","t","i","v","i","t","y">>, theme_lower)
       THEN "action"
       ELSE "object"

\* _generate_clues
generate_clues(words, theme) ==
    [i \in 1..Len(words) |->
        format_clue(words[i], determine_word_category(words[i], theme))]

\* _generate_answer_key
generate_answer_key(clues) == format_answer_key(clues)

\* _estimate_completion_time: base_time_per_word, in half minutes per word
\* (1.5, 2.0, 1.0, 0.5, 1.0 minutes).
HalfMinutesPerWord(game_type) ==
    CASE game_type = "word_search" -> 3
      [] game_type = "crossword" -> 4
      [] game_type = "anagram" -> 2
      [] game_type = "word_match" -> 1
      [] game_type = "trivia" -> 2

\* An estimate without the minimum of 5 minutes.
estimate_completion_time_without_minimum(words, game_type) ==
    (Len(words) * HalfMinutesPerWord(game_type) + 4) \div 2

\* _estimate_completion_time: max(5, int(len(words) * time_factor + 2))
estimate_completion_time(words, game_type) ==
    Max(5, (Len(words) * HalfMinutesPerWord(game_type) + 4) \div 2)

\* Validations whose theme check reads the title instead of the
\* instructions.
run_validations_against_title(content, theme, words) ==
    LET game_data == [type |-> "word_game",
                      title |-> content.title,
                      words |-> words,
                      difficulty |-> "medium"]
        completion_result == validate_game_completion(game_data)
        quality_result ==
            check_content_quality(content.title, words, content.instructions)
        consistency_result ==
            validate_theme_consistency(theme, words, content.title)
    IN [completion_valid |-> completion_result.valid,
        completion_errors |-> completion_result.error,
        quality_score |-> quality_result.quality_score,
        quality_issues |-> quality_result.issues,
        consistency_score |-> consistency_result.consistency_score,
        theme_mentioned |-> consistency_result.theme_mentioned_in_description]

\* _run_validations
run_validations(content, theme, words) ==
    LET game_data == [type |-> "word_game",
                      title |-> content.title,
                      words |-> words,
                      difficulty |-> "medium"]
        completion_result == validate_game_completion(game_data)
        quality_result ==
            check_content_quality(content.title, words, content.instructions)
        consistency_result ==
            validate_theme_consistency(theme, words, content.instructions)
    IN [completion_valid |-> completion_result.valid,
        completion_errors |-> completion_result.error,
        quality_score |-> quality_result.quality_score,
        quality_issues |-> quality_result.issues,
        consistency_score |-> consistency_result.consistency_score,
        theme_mentioned |-> consistency_result.theme_mentioned_in_description]

\* _meets_quality_standards
meets_quality_standards(validation_results) ==
    IF ~validation_results.completion_valid THEN FALSE
    ELSE /\ validation_results.quality_score >= quality_standards.content_quality
         /\ validation_results.consistency_score >= quality_standards.theme_consistency

\* assemble_game
assemble_game(theme, game_type, words, difficulty) ==
    LET title == generate_title(theme, game_type)
        instructions == generate_instructions(game_type, Len(words))
        clues == generate_clues(words, theme)
        content == [title |-> title,
                    instructions |-> instructions,
                    clues |-> clues,
                    answer_key |-> generate_answer_key(clues),
                    estimated_time_minutes |->
                        estimate_completion_time(words, game_type)]
        formatted_structure ==
            format_game_structure(GameTypeValue(game_type), title, words, difficulty)
        validation_results == run_validations(content, theme, words)
        metadata == [theme |-> theme,
                     game_type |-> game_type,
                     difficulty |-> difficulty,
                     word_count |-> Len(words),
                     quality_score |-> validation_results.quality_score,
                     consistency_score |-> validation_results.consistency_score]
    IN [assembled |-> TRUE,
        metadata |-> metadata,
        content |-> content,
        formatted_structure |-> formatted_structure,
        validation_results |-> validation_results,
        ready_for_publication |-> meets_quality_standards(validation_results)]

----------------------------------------------------------------------------
(* assemble_game on its own: the arguments are drawn and the game assembled *)

MaxWords == 8

\* Words to draw the word list from.
WordPool ==
    <<<<"c","a","t">>,
      <<"l","i","o","n">>,
      <<"z","e","b","r","a">>,
      <<"o","t","t","e","r">>,
      <<"h","o","r","s","e">>,
      <<"e","a","g","l","e">>,
      <<"t","i","g","e","r">>,
      <<"w","h","a","l","e">>,
      <<"m","o","u","s","e">>,
      <<"s","n","a","k","e">>>>

\* Themes: none, one the instruction templates mention, one they mention in
\* another case, one that names a category, a digit, and a long one.
Themes ==
    {<<>>,
     <<"w","o","r","d","s">>,
     <<"T","r","i","v","i","a">>,
     <<"o","c","e","a","n"," ","a","n","i","m","a","l","s">>,
     <<"3">>,
     <<"t","h","e"," ","h","i","s","t","o","r","y"," ","o","f"," ",
            "t","h","e"," ","a","n","c","i","e","n","t"," ","m","e","d",
            "i","t","e","r","r","a","n","e","a","n"," ","w","o","r","l",
            "d">>}

Difficulties == {"easy", "medium", "hard"}

NotAssembled == [assembled |-> FALSE]

InitAssemble ==
    /\ InitPipeline
    /\ asm_in \in [theme : Themes,
                   game_type : GameType,
                   words : {SubSeq(WordPool, 1, n) : n \in 0..MaxWords},
                   difficulty : Difficulties]
    /\ asm_out = NotAssembled
    /\ InitToolsIdle

\* A call of assemble_game with the arguments drawn.
AssembleGame ==
    /\ ~asm_out.assembled
    /\ asm_out' = assemble_game(asm_in.theme, asm_in.game_type, asm_in.words,
                                asm_in.difficulty)
    /\ UNCHANGED <<asm_in, pipeVars, toolVars>>

NextAssemble == AssembleGame
SpecAssemble == InitAssemble /\ [][NextAssemble]_vars

\* validate_game_completion on the assembled game's own type, title, words
\* and difficulty.
OwnCompletion ==
    validate_game_completion([type |-> asm_out.metadata.game_type,
                              title |-> asm_out.content.title,
                              words |-> asm_in.words,
                              difficulty |-> asm_out.metadata.difficulty])

\* C1: an assembled game is ready for publication exactly when the completion
\* validation of its own type, title, words and difficulty passes, its
\* quality score is at least 80 and its consistency score is at least 75.
ReadyIffOwnValidationAndScores ==
    asm_out.assembled
        => (asm_out.ready_for_publication
              <=> /\ OwnCompletion.valid
                  /\ asm_out.metadata.quality_score >= 80
                  /\ asm_out.metadata.consistency_score >= 75)

----------------------------------------------------------------------------
(* tools/word_tools.py: WordAnalyzer with its default configuration.  In   *)
(* the results, a field that is None is left out of the record.            *)

\* WordAnalyzer.__init__: the defaults.
min_length == 3
max_length == 20
vowel_set == {"a", "e", "i", "o", "u"}
easy_threshold == 30
medium_threshold == 60

\* The characters str.strip() removes.
Whitespace == {" ", "\t", "\n"}

\* str.lstrip(), str.rstrip(), str.strip()
RECURSIVE str_lstrip(_)
str_lstrip(s) ==
    IF Len(s) > 0 /\ s[1] \in Whitespace THEN str_lstrip(Tail(s)) ELSE s

RECURSIVE str_rstrip(_)
str_rstrip(s) ==
    IF Len(s) > 0 /\ s[Len(s)] \in Whitespace
    THEN str_rstrip(SubSeq(s, 1, Len(s) - 1))
    ELSE s

str_strip(s) == str_rstrip(str_lstrip(s))

\* str.isalpha(): at least one character, and every character a letter.
str_isalpha(s) == Len(s) > 0 /\ \A i \in 1..Len(s) : IsLetter(s[i])

\* A validation that does not look at the characters of the word.
validate_word_any_characters(word) ==
    LET cleaned_word == str_lower(str_strip(word))
    IN IF Len(cleaned_word) = 0
       THEN [valid |-> FALSE, error |-> "Word cannot be empty"]
       ELSE IF Len(cleaned_word) < min_length
       THEN [valid |-> FALSE,
             error |-> "Word must be at least " \o ToString(min_length)
                       \o " characters"]
       ELSE IF Len(cleaned_word) > max_length
       THEN [valid |-> FALSE,
             error |-> "Word must be " \o ToString(max_length)
                       \o " characters or less"]
       ELSE [valid |-> TRUE, word |-> cleaned_word, length |-> Len(cleaned_word)]

\* A validation that looks at the characters before the length.
validate_word_letters_first(word) ==
    LET cleaned_word == str_lower(str_strip(word))
    IN IF Len(cleaned_word) = 0
       THEN [valid |-> FALSE, error |-> "Word cannot be empty"]
       ELSE IF ~str_isalpha(cleaned_word)
       THEN [valid |-> FALSE, error |-> "Word must contain only letters"]
       ELSE IF Len(cleaned_word) < min_length
       THEN [valid |-> FALSE,
             error |-> "Word must be at least " \o ToString(min_length)
                         \o " characters"]
       ELSE IF Len(cleaned_word) > max_length
       THEN [valid |-> FALSE,
             error |-> "Word must be " \o ToString(max_length)
                         \o " characters or less"]
       ELSE [valid |-> TRUE, word |-> cleaned_word,
             length |-> Len(cleaned_word)]

\* WordAnalyzer.validate_word
validate_word(word) ==
    LET cleaned_word == str_lower(str_strip(word))
    IN IF Len(cleaned_word) = 0
       THEN [valid |-> FALSE, error |-> "Word cannot be empty"]
       ELSE IF Len(cleaned_word) < min_length
       THEN [valid |-> FALSE,
             error |-> "Word must be at least " \o ToString(min_length)
                       \o " characters"]
       ELSE IF Len(cleaned_word) > max_length
       THEN [valid |-> FALSE,
             error |-> "Word must be " \o ToString(max_length)
                       \o " characters or less"]
       ELSE IF ~str_isalpha(cleaned_word)
       THEN [valid |-> FALSE, error |-> "Word must contain only letters"]
       ELSE [valid |-> TRUE, word |-> cleaned_word, length |-> Len(cleaned_word)]

\* |n|
Abs(n) == IF n < 0 THEN -n ELSE n

\* round(num / den, 2) in hundredths, for num >= 0 and den > 0: the nearest
\* hundredth, a tie going to the even one.
RoundedHundredths(num, den) ==
    LET q == (100 * num) \div den
        r == (100 * num) % den
    IN IF 2 * r < den THEN q
       ELSE IF 2 * r > den THEN q + 1
       ELSE IF q % 2 = 0 THEN q ELSE q + 1

\* sum(1 for c in cleaned_word if c in self.vowel_set)
CountVowels(s) == Cardinality({i \in 1..Len(s) : s[i] \in vowel_set})

\* (length_score * 0.6 + ratio_score * 0.4) * 100 as the exact fraction
\* ScoreNum / ScoreDen, where length_score = len / max_length and
\* ratio_score = |vowels - consonants| / len (0 for the empty word).
ScoreNum(length, vowels, consonants) ==
    IF length = 0 THEN 0
    ELSE 60 * length * length + 40 * Abs(vowels - consonants) * max_length
ScoreDen(length) == IF length = 0 THEN 1 ELSE max_length * length

\* A bucketing whose lower bucket includes its threshold.
DifficultyLevelInclusive(num, den) ==
    IF num <= easy_threshold * den THEN "easy"
    ELSE IF num <= medium_threshold * den THEN "medium"
    ELSE "hard"

\* The bucket of the score num / den (lines 152-157).
DifficultyLevel(num, den) ==
    IF num < easy_threshold * den THEN "easy"
    ELSE IF num < medium_threshold * den THEN "medium"
    ELSE "hard"

\* WordAnalyzer.calculate_difficulty.  The score field is round(score, 2)
\* in hundredths.
calculate_difficulty(word) ==
    LET cleaned_word == str_lower(word)
        vowels == CountVowels(cleaned_word)
        consonants == Len(cleaned_word) - vowels
        num == ScoreNum(Len(cleaned_word), vowels, consonants)
        den == ScoreDen(Len(cleaned_word))
    IN [word |-> cleaned_word,
        difficulty |-> DifficultyLevel(num, den),
        score |-> RoundedHundredths(num, den),
        vowels |-> vowels,
        consonants |-> consonants,
        length |-> Len(cleaned_word)]

\* {w.lower() for w in words}
LoweredWords(words) == {str_lower(words[i]) : i \in 1..Len(words)}

\* difficulties.count(level) for the difficulties of the words
CountDifficulty(words, level) ==
    Cardinality({i \in 1..Len(words) :
                    calculate_difficulty(words[i]).difficulty = level})

\* A variety check that compares the words as written.
check_word_variety_case_sensitive(words) ==
    LET unique_words == {words[i] : i \in 1..Len(words)}
        duplicates == Len(words) - Cardinality(unique_words)
    IN IF Len(words) = 0
       THEN [valid |-> FALSE, total_words |-> 0, unique_words |-> 0,
             error |-> "Word list is empty"]
       ELSE IF Cardinality(unique_words) # Len(words)
       THEN [valid |-> FALSE,
             total_words |-> Len(words),
             unique_words |-> Cardinality(unique_words),
             error |-> "Found " \o ToString(duplicates)
                         \o " duplicate word(s)",
             duplicate_count |-> duplicates]
       ELSE [valid |-> TRUE,
             total_words |-> Len(words),
             unique_words |-> Cardinality(unique_words),
             difficulty_distribution |->
                 [easy |-> CountDifficulty(words, "easy"),
                  medium |-> CountDifficulty(words, "medium"),
                  hard |-> CountDifficulty(words, "hard")]]

\* WordAnalyzer.check_word_variety.  A field of VarietyResult that is None
\* is left out of the record.
check_word_variety(words) ==
    LET unique_words == LoweredWords(words)
        duplicates == Len(words) - Cardinality(unique_words)
    IN IF Len(words) = 0
       THEN [valid |-> FALSE, total_words |-> 0, unique_words |-> 0,
             error |-> "Word list is empty"]
       ELSE IF Cardinality(unique_words) # Len(words)
       THEN [valid |-> FALSE,
             total_words |-> Len(words),
             unique_words |-> Cardinality(unique_words),
             error |-> "Found " \o ToString(duplicates)
                         \o " duplicate word(s)",
             duplicate_count |-> duplicates]
       ELSE [valid |-> TRUE,
             total_words |-> Len(words),
             unique_words |-> Cardinality(unique_words),
             difficulty_distribution |->
                 [easy |-> CountDifficulty(words, "easy"),
                  medium |-> CountDifficulty(words, "medium"),
                  hard |-> CountDifficulty(words, "hard")]]

----------------------------------------------------------------------------
(* agents/word_picker_agent.py: WordPickerAgent with its default           *)
(* SelectionCriteria and the default WordAnalyzer.                         *)

\* SelectionCriteria.min_words
min_words == 5

\* "".join(c for c in invalid_word.lower() if c.isalpha())
LettersOnly(s) == SelectSeq(str_lower(s), IsLetter)

\* A replacement that is not validated again.
suggest_replacement_unvalidated(invalid_word, theme) ==
    LET cleaned == LettersOnly(invalid_word)
    IN IF Len(invalid_word) < 3 THEN <<>>
       ELSE IF Len(cleaned) >= 3 THEN <<cleaned>>
       ELSE <<>>

\* WordPickerAgent._suggest_replacement: the replacement as a list of one
\* word, the empty list for None.
suggest_replacement(invalid_word, theme) ==
    LET cleaned == LettersOnly(invalid_word)
    IN IF Len(invalid_word) < 3 THEN <<>>
       ELSE IF Len(cleaned) >= 3 /\ validate_word(cleaned).valid
       THEN <<cleaned>>
       ELSE <<>>

\* What one pass of the loop of refine_word_list appends to final_words.
Refined(word, theme) ==
    IF validate_word(word).valid
    THEN <<validate_word(word).word>>
    ELSE suggest_replacement(word, theme)

\* final_words after the loop over initial_words.
RECURSIVE FinalWords(_, _)
FinalWords(initial_words, theme) ==
    IF Len(initial_words) = 0 THEN <<>>
    ELSE Refined(Head(initial_words), theme)
         \o FinalWords(Tail(initial_words), theme)

\* replacements after the loop: old word -> new word.
Replacements(initial_words, theme) ==
    LET replaced == {i \in 1..Len(initial_words) :
                        /\ ~validate_word(initial_words[i]).valid
                        /\ Len(suggest_replacement(initial_words[i], theme)) > 0}
    IN [w \in {initial_words[i] : i \in replaced} |->
            suggest_replacement(w, theme)[1]]

\* WordPickerAgent._calculate_quality_score, as the exact fraction num / den:
\*   validation_score   = valid_count / len(validation_results) * 50, or 0
\*   variety_score      = 50 if variety_result.valid else 25
\*   distribution_bonus = (1 - (sum of |count - total / 3|) / (total * 2)) * 20
\*                        when there is a difficulty_distribution
calculate_quality_score(validation_results, variety_result) ==
    LET n == Len(validation_results)
        valid_count == Cardinality({i \in 1..n : validation_results[i].valid})
        variety_score == IF variety_result.valid THEN 50 ELSE 25
        total == variety_result.total_words
    IN IF "difficulty_distribution" \in DOMAIN variety_result
       THEN LET dist == variety_result.difficulty_distribution
                deviation3 == Abs(3 * dist.easy - total)
                              + Abs(3 * dist.medium - total)
                              + Abs(3 * dist.hard - total)
            IN [num |-> 50 * valid_count * 3 * total
                        + (variety_score + 20) * 3 * n * total
                        - 10 * deviation3 * n,
                den |-> 3 * n * total]
       ELSE IF n > 0
       THEN [num |-> 50 * valid_count + variety_score * n, den |-> n]
       ELSE [num |-> variety_score, den |-> 1]

\* WordPickerAgent.refine_word_list
refine_word_list(initial_words, theme) ==
    LET validation_results ==
            [i \in 1..Len(initial_words) |-> validate_word(initial_words[i])]
        final_words == FinalWords(initial_words, theme)
        variety_result == check_word_variety(final_words)
    IN [original_words |-> initial_words,
        final_words |-> final_words,
        replacements |-> Replacements(initial_words, theme),
        validation_results |-> validation_results,
        variety_result |-> variety_result,
        quality_score |->
            calculate_quality_score(validation_results, variety_result)]

----------------------------------------------------------------------------
(* The tool functions on their own: the arguments of one call are drawn    *)
(* and the function is applied to them.                                    *)

MaxWordLen == 3

\* The characters short input strings are made of: letters of both cases,
\* white space and a digit.
WordAlphabet == {"a", "b", "E", " ", "1"}

\* Every string over WordAlphabet of at most MaxWordLen characters.
ShortStrings == UNION {[1..n -> WordAlphabet] : n \in 0..MaxWordLen}

\* Longer inputs: words at and around the length and score boundaries.
LongStrings ==
    {<<"p","y","t","h","o","n">>,
     <<" ","P","y","t","h","o","n"," ">>,
     <<"w","o","r","d","1","2","3">>,
     <<"e","x","t","r","a","o","r","d","i","n","a","r","y">>,
     <<"a","a","a","a","a","b","b","b","b","b">>,
     <<"a","a","a","a","a","a","a","a","a","a","b","b","b","b","b","b",
      "b","b","b","b">>,
     <<"a","b","c","d","e","f","g","h","i","j","k","l","m","n","o","p",
      "q","r","s","t">>,
     <<"a","b","c","d","e","f","g","h","i","j","k","l","m","n","o","p",
      "q","r","s","t","u">>,
     <<"b","c","d","f","g","h","j","k","l","m","n","p","q","r","s","t",
      "v","w","x","y","z">>,
     <<"a","b","c","d","e","f","g","h","i","j","k","l","m","n","o","p",
      "q","r","s","t","u","1">>}

InputStrings == ShortStrings \cup LongStrings

Returned(value) == [returned |-> TRUE, value |-> value]

InitValidateWord ==
    \E w \in InputStrings : fn_in = [op |-> "validate_word", word |-> w]

\* A call of validate_word.
ValidateWord ==
    /\ fn_in.op = "validate_word"
    /\ ~fn_out.returned
    /\ fn_out' = Returned(validate_word(fn_in.word))
    /\ UNCHANGED <<fn_in, pipeVars, asmVars>>

InitCalculateDifficulty ==
    \E w \in InputStrings : fn_in = [op |-> "calculate_difficulty", word |-> w]

\* A call of calculate_difficulty.
CalculateDifficulty ==
    /\ fn_in.op = "calculate_difficulty"
    /\ ~fn_out.returned
    /\ fn_out' = Returned(calculate_difficulty(fn_in.word))
    /\ UNCHANGED <<fn_in, pipeVars, asmVars>>

\* The longest word list given to check_word_variety.
MaxListLen == 3

\* Words of each difficulty, two of them equal up to case.
VarietyPool ==
    {<<"a","p","p","l","e">>,
     <<"A","p","p","l","e">>,
     <<"c","a","t">>,
     <<"e","x","t","r","a","o","r","d","i","n","a","r","y">>,
     <<"a","a","a","a","a","a","a","a","a","a","b","b","b","b","b","b",
       "b","b","b","b">>}

WordLists == UNION {[1..n -> VarietyPool] : n \in 0..MaxListLen}

InitCheckWordVariety ==
    \E ws \in WordLists : fn_in = [op |-> "check_word_variety", words |-> ws]

\* A call of check_word_variety.
CheckWordVariety ==
    /\ fn_in.op = "check_word_variety"
    /\ ~fn_out.returned
    /\ fn_out' = Returned(check_word_variety(fn_in.words))
    /\ UNCHANGED <<fn_in, pipeVars, asmVars>>

\* Titles, word lists and instructions below, on and above each bound of
\* quality_thresholds.
QualityTitles ==
    {<<>>,
     <<"a","b">>,
     <<"Z","o","o">>,
     <<"F","r","u","i","t"," ","G","a","m","e">>,
     Repeat("t", 50),
     Repeat("t", 51)}

QualityWordLists ==
    {<<>>,
     <<<<"a","p","p","l","e">>, <<"b","a","n","a","n","a">>>>,
     <<<<"a","p","p","l","e">>, <<"b","a","n","a","n","a">>, <<"c","h","e","r","r","y">>>>,
     <<<<"a","p","p","l","e">>, <<"A","p","p","l","e">>, <<"c","h","e","r","r","y">>>>,
     Repeat(<<"a","p","p","l","e">>, 50),
     Repeat(<<"a","p","p","l","e">>, 51)}

QualityInstructions ==
    {<<>>,
     <<"F","i","n","d"," ","t","h","e","m">>,
     <<"F","i","n","d"," ","w","o","r","d","s">>,
     Repeat("i", 500),
     Repeat("i", 501)}

InitCheckContentQuality ==
    \E t \in QualityTitles, ws \in QualityWordLists, ins \in QualityInstructions :
        \/ fn_in = [op |-> "GameValidator.check_content_quality",
                    title |-> t, words |-> ws, instructions |-> ins]
        \/ \E strict \in BOOLEAN :
              fn_in = [op |-> "ContentValidator.check_content_quality",
                       strict_mode |-> strict,
                       title |-> t, words |-> ws, instructions |-> ins]

\* A call of GameValidator.check_content_quality.
GameValidatorCheckContentQuality ==
    /\ fn_in.op = "GameValidator.check_content_quality"
    /\ ~fn_out.returned
    /\ fn_out' = Returned(check_content_quality(fn_in.title, fn_in.words,
                                                fn_in.instructions))
    /\ UNCHANGED <<fn_in, pipeVars, asmVars>>

\* A call of ContentValidator.check_content_quality.
ContentValidatorCheckContentQuality ==
    /\ fn_in.op = "ContentValidator.check_content_quality"
    /\ ~fn_out.returned
    /\ fn_out' = Returned(content_validator_check_content_quality(
                              fn_in.strict_mode, fn_in.title, fn_in.words,
                              fn_in.instructions))
    /\ UNCHANGED <<fn_in, pipeVars, asmVars>>

\* Descriptions that name a theme in its own case, in another case, or not
\* at all.
Descriptions ==
    {<<>>,
     <<"A"," ","g","a","m","e"," ","a","b","o","u","t"," ","w","o","r",
       "d","s">>,
     <<"a"," ","T","R","I","V","I","A"," ","q","u","i","z">>,
     <<"M","e","e","t"," ","t","h","e"," ","O","c","e","a","n"," ","A",
       "n","i","m","a","l","s"," ","o","f"," ","t","h","e"," ","r","e",
       "e","f">>,
     <<"o","c","e","a","n"," ","a","n","d"," ","a","n","i","m","a","l",
       "s">>}

ThemeWordLists ==
    {<<>>,
     <<<<"c","a","t">>>>,
     <<<<"c","a","t">>, <<"l","i","o","n">>, <<"z","e","b","r","a">>>>}

InitValidateThemeConsistency ==
    \E t \in Themes, ws \in ThemeWordLists, d \in Descriptions :
        fn_in = [op |-> "validate_theme_consistency",
                 theme |-> t, words |-> ws, description |-> d]

\* A call of GameValidator.validate_theme_consistency.
ValidateThemeConsistency ==
    /\ fn_in.op = "validate_theme_consistency"
    /\ ~fn_out.returned
    /\ fn_out' = Returned(validate_theme_consistency(
                              fn_in.theme, fn_in.words, fn_in.description))
    /\ UNCHANGED <<fn_in, pipeVars, asmVars>>

\* Game types given to validate_game_completion: the members of GameType
\* and a value outside it.
TypeValues == GameType \cup {"word_game"}

\* The dictionary with the fields of present.
GameData(present, type, words) ==
    [f \in present |->
        CASE f = "type" -> type
          [] f = "title" -> <<"T","e","s","t"," ","G","a","m","e">>
          [] f = "words" -> words
          [] f = "difficulty" -> "medium"]

InitValidateGameCompletion ==
    \E present \in SUBSET {"type", "title", "words", "difficulty"},
       type \in TypeValues,
       words \in {SubSeq(WordPool, 1, n) : n \in 0..MaxWords} :
        fn_in = [op |-> "validate_game_completion",
                 game_data |-> GameData(present, type, words)]

\* A call of GameValidator.validate_game_completion.
ValidateGameCompletion ==
    /\ fn_in.op = "validate_game_completion"
    /\ ~fn_out.returned
    /\ fn_out' = Returned(validate_game_completion(fn_in.game_data))
    /\ UNCHANGED <<fn_in, pipeVars, asmVars>>

\* Candidate words: valid ones of each difficulty, two equal up to case,
\* ones that a cleanup repairs (one of them into another entry), and ones
\* that stay invalid.
CandidatePool ==
    {<<"a","p","p","l","e">>,
     <<"A","p","p","l","e">>,
     <<"a","-","p","-","p","-","l","-","e">>,
     <<"c","a","t">>,
     <<"a","b">>,
     <<" ","P","y","t","h","o","n"," ">>,
     <<"w","o","r","d","1","2","3">>,
     <<"e","x","t","r","a","o","r","d","i","n","a","r","y">>,
     <<"a","a","a","a","a","a","a","a","a","a","b","b","b","b","b","b",
       "b","b","b","b">>,
     <<"a","b","c","d","e","f","g","h","i","j","k","l","m","n","o","p",
       "q","r","s","t","u","1">>}

CandidateLists == UNION {[1..n -> CandidatePool] : n \in 0..MaxListLen}

InitRefineWordList ==
    \E ws \in CandidateLists :
        fn_in = [op |-> "refine_word_list", initial_words |-> ws,
                 theme |-> <<"w","o","r","d","s">>]

\* A call of WordPickerAgent.refine_word_list.
RefineWordList ==
    /\ fn_in.op = "refine_word_list"
    /\ ~fn_out.returned
    /\ fn_out' = Returned(refine_word_list(fn_in.initial_words, fn_in.theme))
    /\ UNCHANGED <<fn_in, pipeVars, asmVars>>

InitTools ==
    /\ InitPipeline
    /\ InitAssembleIdle
    /\ fn_out = NotReturned
    /\ \/ InitValidateWord
       \/ InitCalculateDifficulty
       \/ InitCheckWordVariety
       \/ InitCheckContentQuality
       \/ InitValidateThemeConsistency
       \/ InitValidateGameCompletion
       \/ InitRefineWordList

NextTools ==
    \/ ValidateWord
    \/ CalculateDifficulty
    \/ CheckWordVariety
    \/ GameValidatorCheckContentQuality
    \/ ContentValidatorCheckContentQuality
    \/ ValidateThemeConsistency
    \/ ValidateGameCompletion
    \/ RefineWordList

SpecTools == InitTools /\ [][NextTools]_vars

----------------------------------------------------------------------------
(* Properties of GameGenerationPipeline.execute *)

\* res is a dict returned by execute.
IsResult(res) == "success" \in DOMAIN res

\* The set of the keys in a sequence of keys.
KeySet(keys) == {keys[i] : i \in 1..Len(keys)}

\* The keys of a sequence appear in the order of their stages, each once.
InStageOrder(keys) ==
    \A i, j \in 1..Len(keys) :
        i < j => \E s, t \in Stages : s < t /\ keys[i] = StageKey[s] /\ keys[j] = StageKey[t]

\* The events the call numbered n has consumed (0 if it holds no frame).
EventsConsumedBy(n) ==
    IF \E r \in Runs : request[r] = n
    THEN event_count[CHOOSE r \in Runs : request[r] = n]
    ELSE 0

\* A collaborator of the pipeline is absent.
CollaboratorAbsent ==
    \/ ~attrs.google_api_key
    \/ ~attrs.brainstorm_agent
    \/ ~attrs.word_picker_agent
    \/ ~attrs.game_builder_agent

\* The error a call made with an absent collaborator is expected to report.
AbsentDescribed ==
    IF ~attrs.google_api_key
    THEN IF attrs.brainstorm_agent /\ attrs.word_picker_agent /\ attrs.game_builder_agent
         THEN "Pipeline validation failed: Google API key not configured"
         ELSE "Pipeline validation failed: Google API key not configured; Not all required agents are initialized"
    ELSE "Pipeline validation failed: Not all required agents are initialized"

\* C2: every exception that the validation, the session service or a stage
\* raises inside execute is caught at the boundary: the call returns a result
\* with success = false whose error is the exception's message, nothing
\* propagates, and error_count grows by exactly one in that step.
ExceptionsCaughtAtBoundary ==
    [][(left' # left /\ left'.raised \notin {NoFault, CancelledError})
         => /\ ~left'.propagated
            /\ IsResult(result')
            /\ ~result'.success
            /\ result'.error = left'.raised
            /\ metrics'.error_count = metrics.error_count + 1]_vars

\* C2, a case of it: a stage has raised and the caller holds the failure
\* result that carries the stage's message.
StageErrorReturned ==
    /\ IsResult(result)
    /\ ~result.success
    /\ left.raised \in StageErrors
    /\ ~left.propagated
    /\ result.error = left.raised
    /\ metrics.error_count = 1

FailsAtInitWhenAbsent ==
    [][(calls' = calls + 1 /\ CollaboratorAbsent)
         => /\ left' # left
            /\ ~left'.valid
            /\ IsResult(result')
            /\ ~result'.success
            /\ result'.error = AbsentDescribed
            /\ sessions' = sessions
            /\ pc' = pc
            /\ active' = active
            /\ event_count' = event_count
            /\ metrics'.total_events = metrics.total_events]_vars

\* C5, a case of it: a call made without a stage agent has returned its
\* failure and the session service holds no session.
AgentAbsentReturned ==
    /\ ~left.valid
    /\ IsResult(result)
    /\ ~result.success
    /\ result.error = "Pipeline validation failed: Not all required agents are initialized"
    /\ DOMAIN sessions = {}

\* C6: the metrics a call returns are those of that call alone: error_count
\* is 1 if it failed and 0 otherwise, and total_events is the number of events
\* it consumed.
MetricsArePerRun ==
    [][(left' # left /\ IsResult(result'))
         => /\ metrics'.error_count = (IF result'.success THEN 0 ELSE 1)
            /\ metrics'.total_events =
                 (IF result'.success THEN result'.event_count
                                     ELSE EventsConsumedBy(left'.run))]_vars

\* C7: once a call has failed, a new call made with every collaborator
\* present does not fail on entering execute, however little time has
\* passed.
UsableAfterFailure ==
    [][(calls' = calls + 1 /\ metrics.error_count > 0 /\ ~CollaboratorAbsent)
         => ~(left' # left /\ IsResult(result') /\ ~result'.success)]_vars

\* C8: a call never takes a session identifier that an earlier call on the
\* pipeline has taken: it neither starts on such an identifier nor is refused
\* for it.
SessionIdsDistinct ==
    [][/\ \A r \in Runs :
            (pc[r] = "idle" /\ pc'[r] = "running")
                => session_id'[r] \notin DOMAIN sessions
       /\ left' # left => left'.raised # SessionExistsError]_vars

\* C9: a call cancelled while it consumes the event stream ends as a failed
\* run: it returns a result with success = false and error_count grows by
\* one.
CancellationMarksFailed ==
    [][(left' # left /\ left'.raised = CancelledError)
         => /\ IsResult(result')
            /\ ~result'.success
            /\ metrics'.error_count = metrics.error_count + 1]_vars

\* C10: every result execute returns contains success, execution_time,
\* event_count and metrics, and contains error exactly when success is false.
ResultHasContractKeys ==
    IsResult(result)
        => /\ {"success", "execution_time", "event_count", "metrics"}
                 \subseteq DOMAIN result
           /\ ("error" \in DOMAIN result) <=> ~result.success

----------------------------------------------------------------------------
(* Properties of the tool functions *)

\* C11: validate_word is valid exactly when the trimmed, lowercased input
\* consists only of letters and has between 3 and 20 characters; then it
\* returns that word and its length and no error, and otherwise an error and
\* neither word nor length.
ValidateWordContract ==
    (fn_in.op = "validate_word" /\ fn_out.returned)
        => LET normalized == str_lower(str_strip(fn_in.word))
               acceptable == /\ \A i \in 1..Len(normalized) : IsLetter(normalized[i])
                             /\ Len(normalized) >= 3
                             /\ Len(normalized) <= 20
           IN /\ fn_out.value.valid <=> acceptable
              /\ fn_out.value.valid
                   => /\ fn_out.value.word = normalized
                      /\ fn_out.value.length = Len(normalized)
                      /\ "error" \notin DOMAIN fn_out.value
              /\ ~fn_out.value.valid
                   => /\ "error" \in DOMAIN fn_out.value
                      /\ "word" \notin DOMAIN fn_out.value
                      /\ "length" \notin DOMAIN fn_out.value

\* C11, a case of it: an input with white space and an upper-case letter is
\* accepted as its trimmed lower-case form.
WordNormalizedAndAccepted ==
    /\ fn_in.op = "validate_word"
    /\ fn_out.returned
    /\ fn_out.value.valid
    /\ fn_out.value.word # fn_in.word
    /\ Len(fn_out.value.word) < Len(fn_in.word)

\* C12: the bucket calculate_difficulty returns agrees with the score it
\* reports: easy iff the score is below 30, medium iff it is at least 30 and
\* below 60, hard iff it is at least 60 (scores in hundredths).
BucketAgreesWithScore ==
    (fn_in.op = "calculate_difficulty" /\ fn_out.returned)
        => /\ fn_out.value.difficulty = "easy" <=> fn_out.value.score < 3000
           /\ fn_out.value.difficulty = "medium"
                <=> (fn_out.value.score >= 3000 /\ fn_out.value.score < 6000)
           /\ fn_out.value.difficulty = "hard" <=> fn_out.value.score >= 6000

\* C12, the boundary case: a word whose reported score is exactly 30.
ScoreExactlyThirty ==
    /\ fn_in.op = "calculate_difficulty"
    /\ fn_out.returned
    /\ fn_out.value.score = 3000
    /\ fn_out.value.difficulty = "medium"

\* C13: calculate_difficulty classifies every 13-letter word with 5 vowels
\* and 8 consonants as hard and reports length 13.
ThirteenLettersAreHard ==
    (/\ fn_in.op = "calculate_difficulty"
     /\ fn_out.returned
     /\ Len(fn_in.word) = 13
     /\ fn_out.value.vowels = 5
     /\ fn_out.value.consonants = 8)
        => /\ fn_out.value.difficulty = "hard"
           /\ fn_out.value.length = 13

\* C14: the score calculate_difficulty returns lies between 0 and 100 for
\* every input string, and is 0 for the empty string (scores in hundredths).
ScoreWithinRange ==
    (fn_in.op = "calculate_difficulty" /\ fn_out.returned)
        => /\ fn_out.value.score >= 0
           /\ fn_out.value.score <= 10000
           /\ Len(fn_in.word) = 0 => fn_out.value.score = 0

\* C15: check_word_variety is valid exactly when the list is non-empty and
\* no two of its words are equal up to case; on duplicates it returns
\* duplicate_count = total_words - unique_words, the unique words counted
\* up to case, and no histogram; on success unique_words = total_words and
\* the easy, medium and hard counts sum to total_words.
VarietyContract ==
    (fn_in.op = "check_word_variety" /\ fn_out.returned)
        => LET words == fn_in.words
               r == fn_out.value
               distinct == \A i, j \in 1..Len(words) :
                              i # j => str_lower(words[i]) # str_lower(words[j])
           IN /\ r.valid <=> (Len(words) > 0 /\ distinct)
              /\ (Len(words) > 0 /\ ~distinct)
                    => /\ r.total_words = Len(words)
                       /\ r.unique_words = Cardinality(LoweredWords(words))
                       /\ r.duplicate_count = r.total_words - r.unique_words
                       /\ "difficulty_distribution" \notin DOMAIN r
              /\ r.valid
                    => /\ r.total_words = Len(words)
                       /\ r.unique_words = r.total_words
                       /\ r.difficulty_distribution.easy
                            + r.difficulty_distribution.medium
                            + r.difficulty_distribution.hard = r.total_words

\* C15, the case of two words that differ only in case.
DuplicateUpToCaseRejected ==
    /\ fn_in.op = "check_word_variety"
    /\ fn_out.returned
    /\ \A i, j \in 1..Len(fn_in.words) : i # j => fn_in.words[i] # fn_in.words[j]
    /\ ~fn_out.value.valid
    /\ fn_out.value.total_words = 2
    /\ fn_out.value.duplicate_count = 1

\* The bounds of quality_thresholds that the input violates, each counted
\* on its own.
ViolatedBounds(title, words, instructions) ==
    (IF Len(title) < 3 THEN 1 ELSE 0) + (IF Len(title) > 50 THEN 1 ELSE 0)
    + (IF Len(words) < 3 THEN 1 ELSE 0) + (IF Len(words) > 50 THEN 1 ELSE 0)
    + (IF Len(instructions) < 10 THEN 1 ELSE 0)
    + (IF Len(instructions) > 500 THEN 1 ELSE 0)

\* C16: GameValidator.check_content_quality evaluates the title length, the
\* word count and the instruction length independently: total_issues is the
\* number of violated bounds, three when all three checks fail, and an input
\* that violates none is valid with score 100.
ChecksAreIndependent ==
    (fn_in.op = "GameValidator.check_content_quality" /\ fn_out.returned)
        => LET n == ViolatedBounds(fn_in.title, fn_in.words, fn_in.instructions)
           IN /\ fn_out.value.total_issues = n
              /\ Len(fn_out.value.issues) = n
              /\ n = 0 => (fn_out.value.valid /\ fn_out.value.quality_score = 100)

\* C16, the case of a short title, too few words and short instructions.
AllThreeChecksFail ==
    /\ fn_in.op = "GameValidator.check_content_quality"
    /\ fn_out.returned
    /\ Len(fn_in.title) < 3
    /\ Len(fn_in.words) < 3
    /\ Len(fn_in.instructions) < 10
    /\ fn_out.value.total_issues = 3

\* C17: every implementation of check_content_quality returns
\* quality_score = max(0, 100 - 20 * total_issues) and
\* valid = (total_issues = 0).
ScoreFormulaEverywhere ==
    (/\ fn_in.op \in {"GameValidator.check_content_quality",
                      "ContentValidator.check_content_quality"}
     /\ fn_out.returned)
        => /\ fn_out.value.quality_score
                = Max(0, 100 - 20 * fn_out.value.total_issues)
           /\ fn_out.value.valid = (fn_out.value.total_issues = 0)

\* The theme occurs in the description when case is ignored.
MentionedIgnoringCase(theme, description) ==
    \E k \in 0..(Len(description) - Len(theme)) :
        \A i \in 1..Len(theme) :
            LowerChar(description[k + i]) = LowerChar(theme[i])

\* C18: for a non-empty theme and a non-empty word list,
\* validate_theme_consistency is valid, word_count is the number of words,
\* theme_mentioned_in_description tells whether the lowercased theme is a
\* substring of the lowercased description, and consistency_score is 85 when
\* it is and 70 when it is not.
ThemeScoreIsBinary ==
    (/\ fn_in.op = "validate_theme_consistency"
     /\ fn_out.returned
     /\ Len(fn_in.theme) > 0
     /\ Len(fn_in.words) > 0)
        => LET mentioned == MentionedIgnoringCase(fn_in.theme, fn_in.description)
           IN /\ fn_out.value.valid
              /\ fn_out.value.word_count = Len(fn_in.words)
              /\ fn_out.value.theme_mentioned_in_description = mentioned
              /\ fn_out.value.consistency_score = IF mentioned THEN 85 ELSE 70

\* C18, the case of a theme the description names in another case.
ThemeMentionedInOtherCase ==
    /\ fn_in.op = "validate_theme_consistency"
    /\ fn_out.returned
    /\ Len(fn_in.words) > 0
    /\ ~Contains(fn_in.theme, fn_in.description)
    /\ fn_out.value.theme_mentioned_in_description
    /\ fn_out.value.consistency_score = 85

\* The required fields absent from game_data, in the order type, title,
\* words, difficulty.
Absent(game_data) ==
    SelectSeq(<<"type", "title", "words", "difficulty">>,
              LAMBDA f : f \notin DOMAIN game_data)

TwoWordsAccepted ==
    (/\ fn_in.op = "validate_game_completion"
     /\ fn_out.returned
     /\ Absent(fn_in.game_data) = <<>>
     /\ fn_in.game_data.type \in GameType
     /\ Len(fn_in.game_data.words) = 2)
        => fn_out.value.valid

\* C21: final_words of refine_word_list never contains two words that are
\* equal up to case.
FinalWordsDistinct ==
    (fn_in.op = "refine_word_list" /\ fn_out.returned)
        => \A i, j \in 1..Len(fn_out.value.final_words) :
              i # j => str_lower(fn_out.value.final_words[i])
                         # str_lower(fn_out.value.final_words[j])

\* The word without its non-letter characters, in lower case.
Cleaned(word) ==
    LET letters == {i \in 1..Len(word) : IsLetter(word[i])}
        Nth(k) == CHOOSE i \in letters :
                      Cardinality({j \in letters : j < i}) = k - 1
    IN [k \in 1..Cardinality(letters) |-> LowerChar(word[Nth(k)])]

\* What is kept of one input word: itself, trimmed and in lower case, when
\* it validates; else its cleaned form when that validates; else nothing.
KeptOf(word) ==
    IF validate_word(word).valid THEN <<str_lower(str_strip(word))>>
    ELSE IF validate_word(Cleaned(word)).valid THEN <<Cleaned(word)>>
    ELSE <<>>

RECURSIVE KeptInOrder(_)
KeptInOrder(words) ==
    IF Len(words) = 0 THEN <<>>
    ELSE KeptOf(Head(words)) \o KeptInOrder(Tail(words))

\* C23: refine_word_list keeps every input word that validates, as its
\* trimmed lower-case form; an invalid word is cleaned of its non-letter
\* characters once and kept when the cleaned word validates, dropped when it
\* does not; so every word of final_words passes validate_word, the order of
\* the input is preserved and final_words is no longer than initial_words.
RefinementKeepsOrCleansOnce ==
    (fn_in.op = "refine_word_list" /\ fn_out.returned)
        => LET final_words == fn_out.value.final_words
           IN /\ final_words = KeptInOrder(fn_in.initial_words)
              /\ \A i \in 1..Len(final_words) : validate_word(final_words[i]).valid
              /\ Len(final_words) <= Len(fn_in.initial_words)

\* C23, the case of a list with a word that the cleanup repairs and a word
\* that is dropped.
OneWordRepairedOneDropped ==
    /\ fn_in.op = "refine_word_list"
    /\ fn_out.returned
    /\ DOMAIN fn_out.value.replacements # {}
    /\ Len(fn_out.value.final_words) < Len(fn_in.initial_words)
    /\ Len(fn_out.value.final_words) > 1

\* C24: when fewer than min_words words survive the refinement, word
\* selection fails with InsufficientWords: refine_word_list never returns a
\* final list of fewer than min_words words.
TooFewSurvivorsFail ==
    (fn_in.op = "refine_word_list" /\ fn_out.returned)
        => Len(fn_out.value.final_words) >= min_words

\* C28: quality_score of the RefinedWordList lies between 0 and 100 for
\* every input list.
QualityScoreWithinRange ==
    (fn_in.op = "refine_word_list" /\ fn_out.returned)
        => /\ fn_out.value.quality_score.num >= 0
           /\ fn_out.value.quality_score.num
                <= 100 * fn_out.value.quality_score.den

\* C26: when several failures apply, validate_word reports one of them,
\* chosen in the order empty, too short, too long, non-alphabetic: a trimmed
\* input shorter than 3 characters that holds a digit is too short, and an
\* input of whitespace only is empty.
ValidateWordErrorOrder ==
    (fn_in.op = "validate_word" /\ fn_out.returned)
        => LET trimmed == str_strip(fn_in.word)
               letters == \A i \in 1..Len(trimmed) : IsLetter(trimmed[i])
               r == fn_out.value
           IN /\ Len(trimmed) = 0 => r.error = "Word cannot be empty"
              /\ (Len(trimmed) > 0 /\ Len(trimmed) < 3)
                    => r.error = "Word must be at least 3 characters"
              /\ Len(trimmed) > 20
                    => r.error = "Word must be 20 characters or less"
              /\ (Len(trimmed) >= 3 /\ Len(trimmed) <= 20 /\ ~letters)
                    => r.error = "Word must contain only letters"

\* C26, the case of a short input that holds a character other than a
\* letter.
ShortNonAlphabeticIsTooShort ==
    /\ fn_in.op = "validate_word"
    /\ fn_out.returned
    /\ Len(str_strip(fn_in.word)) \in 1..2
    /\ \E i \in 1..Len(str_strip(fn_in.word)) : ~IsLetter(str_strip(fn_in.word)[i])
    /\ fn_out.value.error = "Word must be at least 3 characters"

\* C27: ContentValidator in strict mode returns the GameValidator result
\* whenever the base quality score is 90 or more: content with no base issue
\* is valid with score 100, duplicate words or a title of 3 or 4 characters
\* notwithstanding.
StrictModeOnlyAfterBaseIssue ==
    (/\ fn_in.op = "ContentValidator.check_content_quality"
     /\ fn_in.strict_mode
     /\ fn_out.returned)
        => LET base == check_content_quality(fn_in.title, fn_in.words,
                                             fn_in.instructions)
           IN /\ base.quality_score >= 90 => fn_out.value = base
              /\ ViolatedBounds(fn_in.title, fn_in.words, fn_in.instructions) = 0
                    => /\ fn_out.value.valid
                       /\ fn_out.value.quality_score = 100
                       /\ fn_out.value.total_issues = 0

\* C27, the case of a short title and duplicate words without a base issue.
StrictRulesNotApplied ==
    /\ fn_in.op = "ContentValidator.check_content_quality"
    /\ fn_in.strict_mode
    /\ fn_out.returned
    /\ Len(fn_in.title) < 5
    /\ \E i, j \in 1..Len(fn_in.words) :
          i # j /\ str_lower(fn_in.words[i]) = str_lower(fn_in.words[j])
    /\ fn_out.value.valid
    /\ fn_out.value.quality_score = 100

----------------------------------------------------------------------------
(* Properties of assemble_game *)

\* Twice the per-type multiplier of the estimate: word_search 1.5,
\* crossword 2.0, anagram 1.0, word_match 0.5, trivia 1.0.
TwiceMultiplier ==
    [word_search |-> 3, crossword |-> 4, anagram |-> 2, word_match |-> 1,
     trivia |-> 2]

\* C22: the estimated completion time of an assembled game is
\* max(5, floor(n * m + 2)) for n words and the multiplier m of the game
\* type; it is never below 5.
EstimateIsFlooredProduct ==
    asm_out.assembled
        => LET twice == Len(asm_in.words) * TwiceMultiplier[asm_in.game_type] + 4
               floor == CHOOSE k \in 0..twice : 2 * k <= twice /\ twice < 2 * k + 2
               minutes == asm_out.content.estimated_time_minutes
           IN /\ minutes = IF floor > 5 THEN floor ELSE 5
              /\ minutes >= 5

\* C22, the case of 8 anagram words, which give 10 minutes.
EightAnagramWordsTakeTen ==
    /\ asm_out.assembled
    /\ asm_in.game_type = "anagram"
    /\ Len(asm_in.words) = 8
    /\ asm_out.content.estimated_time_minutes = 10

\* The lines of a text: the stretches between its newline characters.
RECURSIVE SplitLines(_)
SplitLines(text) ==
    IF \A i \in 1..Len(text) : text[i] # "\n" THEN <<text>>
    ELSE LET nl == CHOOSE i \in 1..Len(text) :
                      text[i] = "\n" /\ \A j \in 1..(i - 1) : text[j] # "\n"
         IN <<SubSeq(text, 1, nl - 1)>>
            \o SplitLines(SubSeq(text, nl + 1, Len(text)))

\* The line of the answer key for the i-th word:
\* "<i>. <word in upper case> - <hint of the word's clue>".
AnswerLine(i) ==
    Decimal(i) \o <<"."," ">> \o str_upper(asm_in.words[i]) \o <<" ","-"," ">>
    \o asm_out.content.clues[i].hint

AnswerLines == [i \in 1..Len(asm_in.words) |-> AnswerLine(i)]

\* C25 as stated: the answer key of an assembled game consists of exactly
\* one line per word, in word order, the i-th line being
\* "<i>. <word in upper case> - <hint of that word's clue>".
AnswerKeyIsOneLinePerWord ==
    asm_out.assembled
        => /\ Len(asm_in.words) = 0 => asm_out.content.answer_key = <<>>
           /\ Len(asm_in.words) > 0
                => SplitLines(asm_out.content.answer_key) = AnswerLines

\* C25 as amended: the answer key consists of the header lines "ANSWER KEY"
\* and 40 "=" characters, followed by exactly one line per word, in word
\* order, the i-th of them being
\* "<i>. <word in upper case> - <hint of that word's clue>".
AnswerKeyIsHeaderThenOneLinePerWord ==
    asm_out.assembled
        => SplitLines(asm_out.content.answer_key)
             = <<<<"A","N","S","W","E","R"," ","K","E","Y">>,
                 <<"=","=","=","=","=","=","=","=","=","=","=","=","=",
                   "=","=","=","=","=","=","=","=","=","=","=","=","=",
                   "=","=","=","=","=","=","=","=","=","=","=","=","=",
                   "=">>>>
               \o AnswerLines

\* C25, the case of a game of several words.
AnswerKeyOfSeveralWords ==
    /\ asm_out.assembled
    /\ Len(asm_in.words) >= 2
    /\ Len(SplitLines(asm_out.content.answer_key)) = Len(asm_in.words) + 2

\* C29: in assemble_game the theme-consistency score is computed against
\* the generated instructions: for a non-empty theme and word list,
\* metadata.consistency_score is 85 exactly when the lowercased theme is a
\* substring of the lowercased instruction text of the game type, and 70
\* otherwise.
ConsistencyReadsInstructions ==
    (asm_out.assembled /\ Len(asm_in.theme) > 0 /\ Len(asm_in.words) > 0)
        => LET template == generate_instructions(asm_in.game_type,
                                                 Len(asm_in.words))
           IN asm_out.metadata.consistency_score
                = IF MentionedIgnoringCase(asm_in.theme, template)
                  THEN 85 ELSE 70

\* C29, the case of a theme that the instructions name in another case.
ThemeFoundInInstructions ==
    /\ asm_out.assembled
    /\ Len(asm_in.words) > 0
    /\ ~Contains(asm_in.theme, asm_out.content.instructions)
    /\ asm_out.metadata.consistency_score = 85

\* C30: an assembled game is self-consistent: estimated_time_minutes and
\* word_count of formatted_structure equal content.estimated_time_minutes
\* and metadata.word_count, and there are as many clue records as words.
GameIsSelfConsistent ==
    asm_out.assembled
        => /\ asm_out.formatted_structure.content.estimated_time_minutes
                = asm_out.content.estimated_time_minutes
           /\ asm_out.formatted_structure.metadata.word_count
                = asm_out.metadata.word_count
           /\ Len(asm_out.content.clues) = Len(asm_in.words)

====
